---- MODULE Spec2Model ----
(***************************************************************************)
(* Model of the multi-source publication reconciliation engine of          *)
(* Project-Scrubs: mergePublications (the identity resolver),              *)
(* fetchPublications (the fan-out orchestrator), includesAuthorName and    *)
(* classifyPaper of src/lib/publicationService.ts, handleSearch of         *)
(* src/app/page.tsx, MetricsEngine of src/lib/metricsEngine.ts, the iCite  *)
(* route of src/app/api/icite/route.ts, fetchWithRetry of the PubMed and   *)
(* Web of Science routes, and the Scopus route with fetchFromScopus.       *)
(*                                                                         *)
(* Strings are sequences of one-character strings so that trimming,        *)
(* lower-casing and the regular-expression replacement are computed.       *)
(* An optional value (undefined in the source) is a sequence of length     *)
(* zero (None) or one (Some(v)).                                           *)
(***************************************************************************)
EXTENDS Integers, Sequences, FiniteSets, TLC

\* ---------------------------------------------------------------- bounds

\* Largest total number of records over the three input lists.
MaxRecords == 3

\* ------------------------------------------------------------ optionals

None == <<>>

Some(v) == <<v>>

\* a ?? b
Coalesce(a, b) == IF a # None THEN a ELSE b

\* ---------------------------------------------------------------- types

\* type PublicationSource
PublicationSource == {"PubMed", "Scopus", "Web of Science"}

\* ------------------------------------------------------------- strings

\* The upper-case letters of the model's alphabet and their lower case.
Lower(c) ==
  IF c \notin {"A", "J", "L", "M", "P", "R", "S", "X"} THEN c
  ELSE CASE c = "A" -> "a"
         [] c = "J" -> "j"
         [] c = "L" -> "l"
         [] c = "M" -> "m"
         [] c = "P" -> "p"
         [] c = "R" -> "r"
         [] c = "S" -> "s"
         [] c = "X" -> "x"

\* String.prototype.toLowerCase
toLowerCase(s) == [i \in 1..Len(s) |-> Lower(s[i])]

IsSpace(c) == c = " "

RECURSIVE trimStart(_)
trimStart(s) ==
  IF s # <<>> /\ IsSpace(Head(s)) THEN trimStart(Tail(s)) ELSE s

RECURSIVE trimEnd(_)
trimEnd(s) ==
  IF s # <<>> /\ IsSpace(s[Len(s)]) THEN trimEnd(SubSeq(s, 1, Len(s) - 1)) ELSE s

\* String.prototype.trim
trim(s) == trimEnd(trimStart(s))

\* The character class [a-z0-9] over the model's alphabet.
IsAlnum(c) ==
  c \in {"a", "b", "c", "d", "e", "g", "h", "i", "j", "l", "m", "n", "o", "p",
         "r", "s", "t", "v", "w", "x", "y"}

\* normalizeDoi as it would be without the trim.
normalizeDoi_untrimmed(doi) ==
  IF doi = None \/ doi[1] = <<>> THEN <<>> ELSE toLowerCase(doi[1])

\* const normalizeDoi = (doi) => doi ? doi.trim().toLowerCase() : ""
normalizeDoi(doi) ==
  IF doi = None \/ doi[1] = <<>> THEN <<>> ELSE toLowerCase(trim(doi[1]))

\* normalizeTitle as it would be without the lower-casing.
normalizeTitle_caseSensitive(title) == SelectSeq(title, IsAlnum)

\* const normalizeTitle = (title) => title.toLowerCase().replace(/[^a-z0-9]+/g, "")
normalizeTitle(title) == SelectSeq(toLowerCase(title), IsAlnum)

\* const buildDoiUrl = (doi) => normalized ? `https://doi.org/${normalized}` : undefined
buildDoiUrl(doi) ==
  LET normalized == normalizeDoi(doi)
  IN  IF normalized # <<>> THEN Some([kind |-> "doi", of |-> normalized]) ELSE None

\* ------------------------------------------------------------ Map<K, V>

\* A JavaScript Map: a sequence of entries in insertion order.
\* Map.prototype.get
MapGet(m, k) ==
  IF \E i \in 1..Len(m) : m[i].key = k
  THEN Some(m[CHOOSE i \in 1..Len(m) : m[i].key = k].value)
  ELSE None

\* Map.prototype.set: an existing key keeps its position.
MapSet(m, k, v) ==
  IF \E i \in 1..Len(m) : m[i].key = k
  THEN [i \in 1..Len(m) |-> IF m[i].key = k THEN [key |-> k, value |-> v] ELSE m[i]]
  ELSE Append(m, [key |-> k, value |-> v])

\* Array.from(map.values())
MapValues(m) == [i \in 1..Len(m) |-> m[i].value]

\* ---------------------------------------------------- sets kept as arrays

Range(s) == {s[i] : i \in 1..Len(s)}

\* new Set(array) then Array.from: first occurrences, in order.
RECURSIVE Dedup(_)
Dedup(s) ==
  IF s = <<>> THEN <<>>
  ELSE LET r == Dedup(SubSeq(s, 1, Len(s) - 1))
       IN  IF s[Len(s)] \in Range(r) THEN r ELSE Append(r, s[Len(s)])

\* Partial<Record<PublicationSource, string>>: None where there is no entry.
EmptyUrls == [p \in PublicationSource |-> None]

\* { ...a, ...b }
Spread(a, b) == [p \in PublicationSource |-> IF b[p] # None THEN b[p] ELSE a[p]]

\* publication.sources ?? [publication.source]
SourcesOf(publication) ==
  IF publication.sources # None THEN publication.sources[1] ELSE <<publication.source>>

\* publication.sourceUrls ?? {}
SourceUrlsOf(publication) ==
  IF publication.sourceUrls # None THEN publication.sourceUrls[1] ELSE EmptyUrls

\* ------------------------------------------------------ mergePublications

\* const sourcePriority = ["Scopus", "Web of Science", "PubMed"]
sourcePriority == <<"Scopus", "Web of Science", "PubMed">>

\* selectedSource as it would be keeping the canonical record's source.
selectedSource_keepExisting(existingSources, fallback) == fallback

\* sourcePriority.find((source) => existingSources.has(source)) ?? existing.source
selectedSource(existingSources, fallback) ==
  IF \E i \in 1..Len(sourcePriority) : sourcePriority[i] \in existingSources
  THEN sourcePriority[CHOOSE i \in 1..Len(sourcePriority) :
         /\ sourcePriority[i] \in existingSources
         /\ \A j \in 1..(i - 1) : sourcePriority[j] \notin existingSources]
  ELSE fallback

\* Math.max(existing.citationCount, publication.citationCount)
mergedCitationCount(existing, publication) ==
  IF existing.citationCount >= publication.citationCount
  THEN existing.citationCount ELSE publication.citationCount

\* The three maps of one call.
EmptyMaps == [merged |-> <<>>, byDoi |-> <<>>, byTitle |-> <<>>]

\* (doiKey ? byDoi.get(doiKey) : undefined) ?? (titleKey ? byTitle.get(titleKey) : undefined)
existingOf(maps, publication) ==
  LET doiKey == normalizeDoi(publication.doi)
      titleKey == normalizeTitle(publication.title)
  IN  Coalesce(IF doiKey # <<>> THEN MapGet(maps.byDoi, doiKey) ELSE None,
               IF titleKey # <<>> THEN MapGet(maps.byTitle, titleKey) ELSE None)

\* The sourceUrls built from the incoming record (lines 233-236).
incomingSourceUrls(publication) ==
  Spread(SourceUrlsOf(publication),
         IF publication.url # None
         THEN [EmptyUrls EXCEPT ![publication.source] = publication.url]
         ELSE EmptyUrls)

\* The canonical record created from a record that matched none (lines 239-244).
mergedPublication(publication) ==
  [publication EXCEPT
     !.sources = Some(Dedup(SourcesOf(publication))),
     !.url = Coalesce(buildDoiUrl(publication.doi), publication.url),
     !.sourceUrls = Some(incomingSourceUrls(publication))]

\* updated as it would be with the incoming record's sources in place of the union.
updated_incomingSourcesOnly(existing, publication) ==
  LET existingSources == Dedup(SourcesOf(existing) \o Dedup(SourcesOf(publication)))
      mergedDoi == IF normalizeDoi(existing.doi) # <<>> THEN existing.doi ELSE publication.doi
  IN  [existing EXCEPT
         !.doi = mergedDoi,
         !.url = Coalesce(buildDoiUrl(mergedDoi), Coalesce(existing.url, publication.url)),
         !.citationCount = mergedCitationCount(existing, publication),
         !.rcr = Coalesce(existing.rcr, publication.rcr),
         !.source = selectedSource(Range(existingSources), existing.source),
         !.sources = Some(Dedup(SourcesOf(publication))),
         !.sourceUrls = Some(Spread(SourceUrlsOf(existing), incomingSourceUrls(publication)))]

\* updated as it would be spreading the incoming record in place of the canonical one.
updated_lastWriterWins(existing, publication) ==
  LET existingSources == Dedup(SourcesOf(existing) \o Dedup(SourcesOf(publication)))
      mergedDoi == IF normalizeDoi(existing.doi) # <<>> THEN existing.doi ELSE publication.doi
  IN  [publication EXCEPT
         !.doi = mergedDoi,
         !.url = Coalesce(buildDoiUrl(mergedDoi), Coalesce(existing.url, publication.url)),
         !.citationCount = mergedCitationCount(existing, publication),
         !.rcr = Coalesce(existing.rcr, publication.rcr),
         !.source = selectedSource(Range(existingSources), existing.source),
         !.sources = Some(existingSources),
         !.sourceUrls = Some(Spread(SourceUrlsOf(existing), incomingSourceUrls(publication)))]

\* The record that replaces the canonical record on a merge (lines 258-285).
updated(existing, publication) ==
  LET existingSources == Dedup(SourcesOf(existing) \o Dedup(SourcesOf(publication)))
      mergedDoi == IF normalizeDoi(existing.doi) # <<>> THEN existing.doi ELSE publication.doi
      mergedUrl == Coalesce(buildDoiUrl(mergedDoi), Coalesce(existing.url, publication.url))
      mergedRcr == Coalesce(existing.rcr, publication.rcr)
      mergedSourceUrls == Spread(SourceUrlsOf(existing), incomingSourceUrls(publication))
  IN  [existing EXCEPT
         !.doi = mergedDoi,
         !.url = mergedUrl,
         !.citationCount = mergedCitationCount(existing, publication),
         !.rcr = mergedRcr,
         !.source = selectedSource(Range(existingSources), existing.source),
         !.sources = Some(existingSources),
         !.sourceUrls = Some(mergedSourceUrls)]

\* The key under which a merge stores the updated record (line 293).
updatedKey(doiKey, titleKey) == IF doiKey # <<>> THEN doiKey ELSE titleKey

\* const upsert = (publication) => { ... }
upsert(maps, publication) ==
  LET doiKey == normalizeDoi(publication.doi)
      titleKey == normalizeTitle(publication.title)
      existing == existingOf(maps, publication)
  IN  IF doiKey = <<>> /\ titleKey = <<>> THEN maps
      ELSE IF existing = None
      THEN LET created == mergedPublication(publication)
               key == IF doiKey # <<>> THEN doiKey ELSE titleKey
           IN  [merged |-> IF key # <<>> THEN MapSet(maps.merged, key, created)
                           ELSE maps.merged,
                byDoi |-> IF doiKey # <<>> THEN MapSet(maps.byDoi, doiKey, created)
                          ELSE maps.byDoi,
                byTitle |-> IF titleKey # <<>> THEN MapSet(maps.byTitle, titleKey, created)
                            ELSE maps.byTitle]
      ELSE LET u == updated(existing[1], publication)
           IN  [merged |-> MapSet(maps.merged, updatedKey(doiKey, titleKey), u),
                byDoi |-> IF doiKey # <<>> THEN MapSet(maps.byDoi, doiKey, u)
                          ELSE maps.byDoi,
                byTitle |-> IF titleKey # <<>> THEN MapSet(maps.byTitle, titleKey, u)
                            ELSE maps.byTitle]

\* The three for-loops of mergePublications over a list of records.
RECURSIVE upsertAll(_, _)
upsertAll(maps, list) ==
  IF list = <<>> THEN maps ELSE upsertAll(upsert(maps, Head(list)), Tail(list))

\* mergePublications(pubmedPublications, scopusPublications, wosPublications)
mergePublications(pubmed, scopus, wos) ==
  MapValues(upsertAll(EmptyMaps, pubmed \o scopus \o wos).merged)

\* --------------------------------------------------------- input records

\* The record an adapter returns (toPublication of the three routes): its
\* url is the DOI link when it has a DOI and its own deep link otherwise;
\* sourceUrls holds its own deep link; sources and rcr are not set.
AdapterRecord(source, n, title, doi, cite, hasUrl) ==
  LET own == IF hasUrl THEN Some([kind |-> "record", of |-> <<source, n>>]) ELSE None
  IN  [id |-> <<source, n>>,
       title |-> title,
       authors |-> <<"authors", source, n>>,
       journal |-> <<"journal", source, n>>,
       date |-> <<"date", source, n>>,
       citationCount |-> cite,
       aiPublicationType |-> IF n % 2 = 1 THEN "Primary Research" ELSE "Review",
       abstract |-> <<"abstract", source, n>>,
       source |-> source,
       sources |-> None,
       doi |-> doi,
       url |-> Coalesce(buildDoiUrl(doi), own),
       sourceUrls |-> IF own # None
                      THEN Some([EmptyUrls EXCEPT ![source] = own]) ELSE None,
       rcr |-> None]

\* The shapes (title, DOI, citation count, own deep link) of the input
\* records: three spellings of one title ("A-b", "a b", "ab"), another title
\* ("c") and a title without any alphanumeric character ("-"); no DOI, a
\* blank DOI, two spellings of one DOI ("X", "x ") and another DOI ("y").
\* The alphabets of titles and DOIs are disjoint, as a DOI has the form
\* 10.n/suffix and a title key has neither dot nor slash.
Shapes ==
  { << <<"A", "-", "b">>, None,              1, TRUE  >>,
    << <<"a", " ", "b">>, None,              0, FALSE >>,
    << <<"a", "b">>,      None,              2, TRUE  >>,
    << <<"a", "b">>,      Some(<<"X">>),     0, TRUE  >>,
    << <<"c">>,           Some(<<"x", " ">>), 2, TRUE  >>,
    << <<"a", " ", "b">>, Some(<<"y">>),     1, FALSE >>,
    << <<"-">>,           Some(<<" ">>),     1, TRUE  >>,
    << <<"-">>,           Some(<<"X">>),     0, FALSE >> }

\* The lists of at most n records of one provider, of the given shapes.
ListsOf(source, n, shapes) ==
  UNION { { [i \in 1..k |-> AdapterRecord(source, i, sh[i][1], sh[i][2], sh[i][3], sh[i][4])] :
              sh \in [1..k -> shapes] } : k \in 0..n }

\* ---------------------------------------------------------------- state

VARIABLES
  pubmedPublications,  \* the PubMed list (argument of mergePublications, line 787)
  scopusPublications,  \* the Scopus list (line 788)
  wosPublications,     \* the Web of Science list (line 789)
  maps,                \* merged, byDoi, byTitle of the running mergePublications
  done,                \* number of loop iterations mergePublications has finished
  result,              \* the array mergePublications returned, None before
  useMock,             \* NEXT_PUBLIC_USE_MOCK_PUBLICATIONS === "true"
  pc,                  \* where fetchPublications is
  status,              \* the state of each provider's request
  errors,              \* const errors: string[]
  responses,           \* const responses: { source, response }[]
  fetchResult,         \* what fetchPublications resolved with, None before
  hsPc,                \* where handleSearch is
  results,             \* const [results, setResults]
  isLoading,           \* const [isLoading, setIsLoading]
  errorMessages,       \* const [errorMessages, setErrorMessages]
  summaryMetrics,      \* const [summaryMetrics, setSummaryMetrics], None for null
  papers,              \* the argument of the MetricsEngine methods
  hIndex,              \* what calculateHIndex returned, None before
  weightedRcr,         \* what calculateWeightedRCR returned, None before
  authors,             \* first argument of includesAuthorName
  authorName,          \* second argument of includesAuthorName
  matched,             \* what includesAuthorName returned, None before
  abstract,            \* the argument of classifyPaper
  configured,          \* LITELLM_BASE_URL && LITELLM_API_KEY
  classifyPc,          \* where classifyPaper is
  remote,              \* how the remote classifier answered, None before
  label,               \* what classifyPaper resolved with, None before
  uniquePmids,         \* const uniquePmids of the iCite route
  batchesDone,         \* number of iterations of the loop over batches begun
  requested,           \* the batches requested from iCite so far
  iciteResults,        \* const results: Record<string, number>
  icitePc,             \* where POST of the iCite route is
  attempts,            \* the parameter attempts of fetchWithRetry
  attempt,             \* the loop variable attempt of fetchWithRetry
  lastError,           \* let lastError, None while undefined
  calls,               \* the outcomes of the calls of fetchWithTimeout so far
  retryPc,             \* where fetchWithRetry is
  retryResult,         \* what fetchWithRetry returned or threw, None before
  hasName,             \* the Scopus route was given a non-blank faculty name
  hasApiKey,           \* SCOPUS_API_KEY or NEXT_PUBLIC_SCOPUS_API_KEY is set
  scopusPc,            \* where the Scopus route and fetchFromScopus are
  scopusStart,         \* let start of fetchFromScopus
  scopusTotal,         \* let total of fetchFromScopus, None for null
  pages,               \* the answers of Scopus to the page requests so far
  failure,             \* how the Scopus query failed, None if it has not
  routeResponse        \* the response of the Scopus route, None before

mergeVars == <<maps, done, result>>

listVars == <<pubmedPublications, scopusPublications, wosPublications>>

fetchVars == <<useMock, pc, status, errors, responses, fetchResult>>

uiVars == <<hsPc, results, isLoading, errorMessages, summaryMetrics>>

metricVars == <<papers, hIndex, weightedRcr>>

nameVars == <<authors, authorName, matched>>

classifyVars == <<abstract, configured, classifyPc, remote, label>>

iciteVars == <<uniquePmids, batchesDone, requested, iciteResults, icitePc>>

retryVars == <<attempts, attempt, lastError, calls, retryPc, retryResult>>

scopusVars ==
  <<hasName, hasApiKey, scopusPc, scopusStart, scopusTotal, pages, failure, routeResponse>>

\* The variables of the provider routes.
routeVars == <<retryVars, scopusVars>>

\* The variables of the page and of the functions outside fetchPublications.
restVars == <<uiVars, metricVars, nameVars, classifyVars, iciteVars, routeVars>>

vars == <<listVars, mergeVars, fetchVars, routeVars, restVars>>

\* No call of mergePublications is running.
MergeIdle ==
  /\ pubmedPublications = <<>>
  /\ scopusPublications = <<>>
  /\ wosPublications = <<>>
  /\ maps = [merged |-> <<>>, byDoi |-> <<>>, byTitle |-> <<>>]
  /\ done = 0
  /\ result = None

\* The page as it is first rendered (useState initial values, lines 25-33).
UiIdle ==
  /\ hsPc = "idle"
  /\ results = <<>>
  /\ isLoading = FALSE
  /\ errorMessages = <<>>
  /\ summaryMetrics = None

\* No MetricsEngine method has been called.
MetricsIdle ==
  /\ papers = <<>>
  /\ hIndex = None
  /\ weightedRcr = None

\* includesAuthorName has not been called.
NamesIdle ==
  /\ authors = <<>>
  /\ authorName = <<>>
  /\ matched = None

\* classifyPaper has not been called.
ClassifyIdle ==
  /\ abstract = <<>>
  /\ configured = FALSE
  /\ classifyPc = "idle"
  /\ remote = None
  /\ label = None

\* The iCite route has not been called.
IciteIdle ==
  /\ uniquePmids = <<>>
  /\ batchesDone = 0
  /\ requested = <<>>
  /\ iciteResults = {}
  /\ icitePc = "idle"

\* fetchWithRetry has not been called.
RetryIdle ==
  /\ attempts = 0
  /\ attempt = 0
  /\ lastError = None
  /\ calls = <<>>
  /\ retryPc = "idle"
  /\ retryResult = None

\* The Scopus route has not been called.
ScopusIdle ==
  /\ hasName = FALSE
  /\ hasApiKey = FALSE
  /\ scopusPc = "idle"
  /\ scopusStart = 0
  /\ scopusTotal = None
  /\ pages = <<>>
  /\ failure = None
  /\ routeResponse = None

RoutesIdle == RetryIdle /\ ScopusIdle

RestIdle ==
  UiIdle /\ MetricsIdle /\ NamesIdle /\ ClassifyIdle /\ IciteIdle /\ RoutesIdle

\* Inputs as it would be with the Scopus loop before the PubMed loop.
Inputs_scopusFirst == scopusPublications \o pubmedPublications \o wosPublications

\* The records in the order in which the three loops process them.
Inputs == pubmedPublications \o scopusPublications \o wosPublications

\* No call of fetchPublications is running.
FetchIdle ==
  /\ useMock = FALSE
  /\ pc = "idle"
  /\ status = [p \in PublicationSource |-> "idle"]
  /\ errors = <<>>
  /\ responses = <<>>
  /\ fetchResult = None

\* mergePublications is called with three lists of at most MaxRecords records.
Init ==
  /\ \E np \in 0..MaxRecords : \E ns \in 0..(MaxRecords - np) :
       \E nw \in 0..(MaxRecords - np - ns) :
         /\ pubmedPublications \in ListsOf("PubMed", np, Shapes)
         /\ Len(pubmedPublications) = np
         /\ scopusPublications \in ListsOf("Scopus", ns, Shapes)
         /\ Len(scopusPublications) = ns
         /\ wosPublications \in ListsOf("Web of Science", nw, Shapes)
         /\ Len(wosPublications) = nw
  /\ maps = EmptyMaps
  /\ done = 0
  /\ result = None
  /\ FetchIdle
  /\ RestIdle

\* One iteration of one of the three loops (lines 296-304).
Step(lo, hi) ==
  /\ result = None
  /\ done >= lo
  /\ done < hi
  /\ maps' = upsert(maps, Inputs[done + 1])
  /\ done' = done + 1
  /\ UNCHANGED <<listVars, result, fetchVars, restVars>>

UpsertPubmed == Step(0, Len(pubmedPublications))

UpsertScopus ==
  Step(Len(pubmedPublications), Len(pubmedPublications) + Len(scopusPublications))

UpsertWos == Step(Len(pubmedPublications) + Len(scopusPublications), Len(Inputs))

\* return Array.from(merged.values()) (line 306)
Return ==
  /\ result = None
  /\ done = Len(Inputs)
  /\ result' = Some(MapValues(maps.merged))
  /\ UNCHANGED <<listVars, maps, done, fetchVars, restVars>>

Next == UpsertPubmed \/ UpsertScopus \/ UpsertWos \/ Return

Spec == Init /\ [][Next]_vars

\* ------------------------------------------------------ fetchPublications

\* Largest number of records in one provider's response.
MaxItems == 1

\* The shapes of the records in the responses: a record without DOI, a
\* record with the same title and a DOI, and a record without DOI whose
\* title has no letter or digit.
ResponseShapes ==
  { << <<"A", "-", "b">>, None,          1, TRUE >>,
    << <<"a", "b">>,      Some(<<"X">>), 0, TRUE >>,
    << <<"-">>,           None,          0, TRUE >> }

\* A record as mockPublications lists it: no sources, doi, url or sourceUrls.
MockRecord(id, cite, type) ==
  [id |-> id, title |-> <<"title", id>>, authors |-> <<"authors", id>>,
   journal |-> <<"journal", id>>, date |-> <<"date", id>>,
   citationCount |-> cite, aiPublicationType |-> type,
   abstract |-> <<"abstract", id>>, source |-> "PubMed", sources |-> None,
   doi |-> None, url |-> None, sourceUrls |-> None, rcr |-> None]

\* const mockPublications
mockPublications ==
  << MockRecord("mock-001", 34, "Primary Research"),
     MockRecord("mock-002", 57, "Review"),
     MockRecord("mock-003", 12, "Primary Research") >>

\* The order in which the requests are listed and their results examined.
sourceOrder == <<"PubMed", "Scopus", "Web of Science">>

\* Promise.all in place of Promise.allSettled: the first rejection settles it.
allSettled_firstRejection(st) ==
  \/ \A p \in PublicationSource : st[p] \in {"ok", "notOk", "rejected"}
  \/ \E p \in PublicationSource : st[p] = "rejected"

\* Promise.allSettled: every request has been fulfilled or rejected.
allSettled(st) == \A p \in PublicationSource : st[p] \in {"ok", "notOk", "rejected"}

\* `${source} request failed: ${message}` (lines 757, 767, 777)
rejectedMessage(source) == <<source, " request failed: ", "Network error">>

\* `${source} request failed (${response.status}): ${errorBody || "Unknown error"}`
notOkMessage(source) == <<source, " request failed (", "status", "): ", "Unknown error">>

\* rejectedErrors as it would be with the Scopus branch (lines 762-768) missing.
RECURSIVE rejectedErrors_scopusForgotten(_, _)
rejectedErrors_scopusForgotten(st, order) ==
  IF order = <<>> THEN <<>>
  ELSE (IF st[Head(order)] = "rejected" /\ Head(order) # "Scopus"
        THEN <<rejectedMessage(Head(order))>> ELSE <<>>)
       \o rejectedErrors_scopusForgotten(st, Tail(order))

\* The errors pushed for the rejected requests (lines 750-778), in order.
RECURSIVE rejectedErrors(_, _)
rejectedErrors(st, order) ==
  IF order = <<>> THEN <<>>
  ELSE (IF st[Head(order)] = "rejected" THEN <<rejectedMessage(Head(order))>> ELSE <<>>)
       \o rejectedErrors(st, Tail(order))

\* The responses pushed for the fulfilled requests (lines 750-778), in order.
RECURSIVE fulfilledResponses(_, _)
fulfilledResponses(st, order) ==
  IF order = <<>> THEN <<>>
  ELSE (IF st[Head(order)] \in {"ok", "notOk"}
        THEN <<[source |-> Head(order), ok |-> st[Head(order)] = "ok"]>> ELSE <<>>)
       \o fulfilledResponses(st, Tail(order))

\* fetchPublications is called.
FetchInit ==
  /\ pubmedPublications = <<>>
  /\ scopusPublications = <<>>
  /\ wosPublications = <<>>
  /\ maps = EmptyMaps
  /\ done = 0
  /\ result = None
  /\ useMock \in BOOLEAN
  /\ pc = "start"
  /\ status = [p \in PublicationSource |-> "idle"]
  /\ errors = <<>>
  /\ responses = <<>>
  /\ fetchResult = None
  /\ RestIdle

\* if (useMock) return { publications: mockPublications, errors: [] } (lines 733-736)
ReturnMock ==
  /\ pc = "start"
  /\ useMock
  /\ fetchResult' = Some([publications |-> mockPublications, errors |-> <<>>])
  /\ pc' = "returned"
  /\ UNCHANGED <<listVars, mergeVars, restVars, useMock, status, errors, responses>>

\* The three fetch calls are made and their promises handed to
\* Promise.allSettled (lines 741-745).
Issue ==
  /\ pc = "start"
  /\ ~useMock
  /\ status' = [p \in PublicationSource |-> "pending"]
  /\ pc' = "awaiting"
  /\ UNCHANGED <<listVars, mergeVars, restVars, useMock, errors, responses, fetchResult>>

\* One request settles: fulfilled with an OK response, fulfilled with a
\* non-OK response, or rejected.
Settle ==
  \E p \in PublicationSource : \E outcome \in {"ok", "notOk", "rejected"} :
    /\ status[p] = "pending"
    /\ status' = [status EXCEPT ![p] = outcome]
    /\ UNCHANGED <<listVars, mergeVars, restVars, useMock, pc, errors, responses, fetchResult>>

\* The message returned when nothing else says why there is no response.
genericMessage == <<"Unable to reach any data source.">>

\* noResponseErrors as it would be returning the generic message always.
noResponseErrors_alwaysGeneric(errs) == <<genericMessage>>

\* errors.length > 0 ? errors : ["Unable to reach any data source."] (line 783)
noResponseErrors(errs) == IF Len(errs) > 0 THEN errs ELSE <<genericMessage>>

\* The await of line 741 resumes; errors and responses are built and the
\* function returns when there is no response (lines 747-785).
Resume ==
  /\ pc = "awaiting"
  /\ allSettled(status)
  /\ errors' = rejectedErrors(status, sourceOrder)
  /\ responses' = fulfilledResponses(status, sourceOrder)
  /\ IF Len(responses') = 0
     THEN /\ fetchResult' =
               Some([publications |-> <<>>,
                     errors |-> noResponseErrors(errors')])
          /\ pc' = "returned"
     ELSE /\ fetchResult' = fetchResult
          /\ pc' = "reading"
  /\ UNCHANGED <<listVars, mergeVars, restVars, useMock, status>>

\* errorsAfterNotOk as it would be if a non-OK response were skipped silently.
errorsAfterNotOk_skipped(errs, source) == errs

\* The errors after the loop has met a non-OK response (lines 792-798).
errorsAfterNotOk(errs, source) == Append(errs, notOkMessage(source))

\* One iteration of the loop over responses, for a non-OK response whose
\* body is read (lines 792-798).
ReadNotOk ==
  /\ pc = "reading"
  /\ responses # <<>>
  /\ ~Head(responses).ok
  /\ errors' = errorsAfterNotOk(errors, Head(responses).source)
  /\ responses' = Tail(responses)
  /\ UNCHANGED <<listVars, mergeVars, restVars, useMock, pc, status, fetchResult>>

\* One iteration for an OK response whose body parses: its publications are
\* pushed to the provider's list (lines 799-807).
ReadOk ==
  /\ pc = "reading"
  /\ responses # <<>>
  /\ Head(responses).ok
  /\ \E items \in ListsOf(Head(responses).source, MaxItems, ResponseShapes) :
       /\ pubmedPublications' =
            IF Head(responses).source = "PubMed"
            THEN pubmedPublications \o items ELSE pubmedPublications
       /\ scopusPublications' =
            IF Head(responses).source = "Scopus"
            THEN scopusPublications \o items ELSE scopusPublications
       /\ wosPublications' =
            IF Head(responses).source \notin {"PubMed", "Scopus"}
            THEN wosPublications \o items ELSE wosPublications
  /\ responses' = Tail(responses)
  /\ UNCHANGED <<mergeVars, restVars, useMock, pc, status, errors, fetchResult>>

\* response.text() or response.json() throws: nothing catches it and the
\* promise fetchPublications returned rejects (lines 793, 799).
ReadThrows ==
  /\ pc = "reading"
  /\ responses # <<>>
  /\ pc' = "rejected"
  /\ UNCHANGED <<listVars, mergeVars, restVars, useMock, status, errors, responses, fetchResult>>

\* The lists are merged and the result returned (lines 810-820).
Finish ==
  /\ pc = "reading"
  /\ responses = <<>>
  /\ LET publications ==
           mergePublications(pubmedPublications, scopusPublications, wosPublications)
     IN  fetchResult' =
           IF Len(publications) = 0 /\ Len(errors) > 0
           THEN Some([publications |-> <<>>, errors |-> errors])
           ELSE Some([publications |-> publications, errors |-> errors])
  /\ pc' = "returned"
  /\ UNCHANGED <<listVars, mergeVars, restVars, useMock, status, errors, responses>>

FetchNext ==
  ReturnMock \/ Issue \/ Settle \/ Resume \/ ReadNotOk \/ ReadOk \/ ReadThrows \/ Finish

FetchSpec == FetchInit /\ [][FetchNext]_vars

\* ----------------------------------------------------------- MetricsEngine

\* Largest number of papers in the list given to a MetricsEngine method.
MaxPapers == 3

\* One step of the stable sort with (a, b) => b.citationCount - a.citationCount:
\* the paper goes behind every paper already placed that has at least its count.
RECURSIVE insertByCitations(_, _)
insertByCitations(sorted, paper) ==
  IF sorted = <<>> THEN <<paper>>
  ELSE IF Head(sorted).citationCount >= paper.citationCount
       THEN <<Head(sorted)>> \o insertByCitations(Tail(sorted), paper)
       ELSE <<paper>> \o sorted

\* [...papers].sort((a, b) => b.citationCount - a.citationCount)
RECURSIVE sortByCitations(_)
sortByCitations(list) ==
  IF list = <<>> THEN <<>>
  ELSE insertByCitations(sortByCitations(SubSeq(list, 1, Len(list) - 1)),
                         list[Len(list)])

\* The for-loop of calculateHIndex from index i (0-based), h being the value
\* of the local hIndex: it breaks at the first rank that fails.
RECURSIVE scanRanks(_, _, _)
scanRanks(sorted, i, h) ==
  IF i >= Len(sorted) THEN h
  ELSE IF sorted[i + 1].citationCount >= i + 1
       THEN scanRanks(sorted, i + 1, i + 1)
       ELSE h

\* calculateHIndex as it would be scanning the list as given, without the sort.
calculateHIndex_unsorted(list) == scanRanks(list, 0, 0)

\* static calculateHIndex(papers)
calculateHIndex(list) == scanRanks(sortByCitations(list), 0, 0)

\* papers.reduce((total, paper) => total + (paper.rcr ?? 0), 0); an rcr is
\* counted in tenths, so that 2.1 is 21.
RECURSIVE reduceRcr(_, _)
reduceRcr(list, total) ==
  IF list = <<>> THEN total
  ELSE reduceRcr(Tail(list),
                 total + (IF Head(list).rcr # None THEN Head(list).rcr[1] ELSE 0))

\* calculateWeightedRCR as it would be dividing the sum by the number of papers.
calculateWeightedRCR_mean(list) ==
  IF list = <<>> THEN 0 ELSE reduceRcr(list, 0) \div Len(list)

\* static calculateWeightedRCR(papers)
calculateWeightedRCR(list) == reduceRcr(list, 0)

\* The (citation count, rcr) pairs of the papers: every count up to one more
\* than can matter with and without an rcr of 0.4, and a paper of rcr 2.1.
PaperShapes ==
  { <<c, r>> : c \in 0..MaxPapers, r \in {None, Some(4)} } \cup { <<0, Some(21)>> }

\* The n-th paper of a list: a merged PubMed record, enriched when it has an rcr.
Paper(n, cite, rcr) ==
  [mergedPublication(AdapterRecord("PubMed", n, <<"a">>, None, cite, TRUE))
     EXCEPT !.rcr = rcr]

\* The lists of at most MaxPapers papers, and the mock list.
PaperLists ==
  UNION { { [i \in 1..k |-> Paper(i, sh[i][1], sh[i][2])] : sh \in [1..k -> PaperShapes] } :
          k \in 0..MaxPapers }
    \cup { mockPublications }

\* A list of papers is about to be measured.
MetricsInit ==
  /\ MergeIdle
  /\ FetchIdle
  /\ RoutesIdle
  /\ UiIdle /\ NamesIdle /\ ClassifyIdle /\ IciteIdle
  /\ papers \in PaperLists
  /\ hIndex = None
  /\ weightedRcr = None

\* MetricsEngine.calculateHIndex(papers) is called and returns.
CalculateHIndex ==
  /\ hIndex = None
  /\ hIndex' = Some(calculateHIndex(papers))
  /\ UNCHANGED <<listVars, mergeVars, fetchVars, routeVars, uiVars, nameVars, classifyVars,
                 iciteVars, papers, weightedRcr>>

\* MetricsEngine.calculateWeightedRCR(papers) is called and returns.
CalculateWeightedRCR ==
  /\ weightedRcr = None
  /\ weightedRcr' = Some(calculateWeightedRCR(papers))
  /\ UNCHANGED <<listVars, mergeVars, fetchVars, routeVars, uiVars, nameVars, classifyVars,
                 iciteVars, papers, hIndex>>

MetricsNext == CalculateHIndex \/ CalculateWeightedRCR

MetricsSpec == MetricsInit /\ [][MetricsNext]_vars

\* ------------------------------------------------------------ handleSearch

\* publication.sources?.includes("PubMed") || publication.source === "PubMed"
fromPubMed(publication) ==
  \/ publication.sources # None /\ "PubMed" \in Range(publication.sources[1])
  \/ publication.source = "PubMed"

\* const pubmedPmids (lines 54-56)
pubmedPmidsOf(publications) ==
  LET kept == SelectSeq(publications, fromPubMed)
  IN  [i \in 1..Len(kept) |-> kept[i].id]

\* The Map fetchiCiteData resolves with after a readable answer: an rcr
\* (0.4) for each of the first n identifiers it was asked about.
rcrMapOf(pmids, n) == [i \in 1..n |-> [key |-> pmids[i], value |-> 4]]

\* const enrichedPublications (lines 59-68)
enrichedPublications(publications, rcrMap) ==
  [i \in 1..Len(publications) |->
     IF fromPubMed(publications[i]) /\ MapGet(rcrMap, publications[i].id) # None
     THEN [publications[i] EXCEPT !.rcr = MapGet(rcrMap, publications[i].id)]
     ELSE publications[i]]

\* let rcrCount (lines 58-63)
rcrCountOf(publications, rcrMap) ==
  Cardinality({ i \in 1..Len(publications) :
                  /\ fromPubMed(publications[i])
                  /\ MapGet(rcrMap, publications[i].id) # None })

\* The message of lines 75-77.
noResultsMessage == <<"No results found for the selected filters.">>

\* displayedMessages as it would be testing the publications alone.
displayedMessages_ignoringErrors(publications, errs) ==
  IF Len(publications) = 0 THEN <<noResultsMessage>> ELSE errs

\* What the two calls of setErrorMessages leave (lines 73-77).
displayedMessages(publications, errs) ==
  IF Len(publications) = 0 /\ Len(errs) = 0 THEN <<noResultsMessage>> ELSE errs

\* error instanceof Error ? error.message : "Unable to fetch publications."
caughtMessage == <<"error.message">>

\* The page with fetchPublications not yet called.
HandleInit ==
  /\ MergeIdle
  /\ useMock \in BOOLEAN
  /\ pc = "idle"
  /\ status = [p \in PublicationSource |-> "idle"]
  /\ errors = <<>>
  /\ responses = <<>>
  /\ fetchResult = None
  /\ RestIdle

\* handleSearch runs up to its first await: fetchPublications is called
\* (lines 40-53).
HandleSearch ==
  /\ hsPc = "idle"
  /\ pc = "idle"
  /\ isLoading' = TRUE
  /\ errorMessages' = <<>>
  /\ summaryMetrics' = None
  /\ hsPc' = "fetching"
  /\ pc' = "start"
  /\ UNCHANGED <<listVars, mergeVars, useMock, status, errors, responses, fetchResult,
                 routeVars, results, metricVars, nameVars, classifyVars, iciteVars>>

\* Lines 58-77 and the finally block, with the Map fetchiCiteData resolved with.
Display(rcrMap) ==
  LET publications == fetchResult[1].publications
      enriched == enrichedPublications(publications, rcrMap)
  IN  /\ results' = enriched
      /\ errorMessages' = displayedMessages(publications, fetchResult[1].errors)
      /\ summaryMetrics' =
           Some([hIndex |-> calculateHIndex(enriched),
                 weightedRcr |-> calculateWeightedRCR(enriched),
                 rcrCount |-> rcrCountOf(publications, rcrMap),
                 pubmedCount |-> Len(pubmedPmidsOf(publications))])
      /\ isLoading' = FALSE
      /\ hsPc' = "settled"

\* The catch and finally blocks (lines 78-85).
Catch ==
  /\ errorMessages' = <<caughtMessage>>
  /\ results' = <<>>
  /\ isLoading' = FALSE
  /\ hsPc' = "settled"
  /\ UNCHANGED summaryMetrics

\* fetchPublications resolved: the identifiers are collected and
\* fetchiCiteData is called; with no identifier it resolves with an empty
\* Map without a request (lines 54-57; iCiteService lines 6-9).
FetchResolved ==
  /\ hsPc = "fetching"
  /\ pc = "returned"
  /\ IF Dedup(pubmedPmidsOf(fetchResult[1].publications)) = <<>>
     THEN Display(<<>>)
     ELSE /\ hsPc' = "enriching"
          /\ UNCHANGED <<results, isLoading, errorMessages, summaryMetrics>>
  /\ UNCHANGED <<listVars, mergeVars, fetchVars, routeVars, metricVars, nameVars, classifyVars,
                 iciteVars>>

\* fetchPublications rejected (a body read threw): the catch block runs.
FetchRejected ==
  /\ hsPc = "fetching"
  /\ pc = "rejected"
  /\ Catch
  /\ UNCHANGED <<listVars, mergeVars, fetchVars, routeVars, metricVars, nameVars, classifyVars,
                 iciteVars>>

\* The request to /api/icite rejects, or the body of its answer cannot be
\* parsed: fetchiCiteData rejects and the catch block runs (iCiteService
\* lines 11, 21).
IciteRejected ==
  /\ hsPc = "enriching"
  /\ Catch
  /\ UNCHANGED <<listVars, mergeVars, fetchVars, routeVars, metricVars, nameVars, classifyVars,
                 iciteVars>>

\* /api/icite answers with a non-OK status: an empty Map (iCiteService
\* lines 17-19).
IciteNotOk ==
  /\ hsPc = "enriching"
  /\ Display(<<>>)
  /\ UNCHANGED <<listVars, mergeVars, fetchVars, routeVars, metricVars, nameVars, classifyVars,
                 iciteVars>>

\* /api/icite answers with rates for some of the identifiers (iCiteService
\* lines 21-29).
IciteOk ==
  /\ hsPc = "enriching"
  /\ \E n \in 0..Len(Dedup(pubmedPmidsOf(fetchResult[1].publications))) :
       Display(rcrMapOf(Dedup(pubmedPmidsOf(fetchResult[1].publications)), n))
  /\ UNCHANGED <<listVars, mergeVars, fetchVars, routeVars, metricVars, nameVars, classifyVars,
                 iciteVars>>

HandleNext ==
  \/ HandleSearch
  \/ FetchNext
  \/ FetchResolved
  \/ FetchRejected
  \/ IciteRejected
  \/ IciteNotOk
  \/ IciteOk

HandleSpec == HandleInit /\ [][HandleNext]_vars

\* ------------------------------------------------------ includesAuthorName

\* Largest number of author strings of one record.
MaxAuthors == 2

\* String.prototype.includes
IsSubstring(part, s) ==
  \E i \in 0..(Len(s) - Len(part)) : SubSeq(s, i + 1, i + Len(part)) = part

\* String.prototype.split with a one-character separator: the pieces
\* between the separators, empty ones included; piece is the one being read.
RECURSIVE splitFrom(_, _, _)
splitFrom(s, sep, piece) ==
  IF s = <<>> THEN <<piece>>
  ELSE IF Head(s) = sep THEN <<piece>> \o splitFrom(Tail(s), sep, <<>>)
  ELSE splitFrom(Tail(s), sep, Append(piece, Head(s)))

split(s, sep) == splitFrom(s, sep, <<>>)

\* Array.prototype.join(" ")
RECURSIVE joinWithSpace(_)
joinWithSpace(pieces) ==
  IF pieces = <<>> THEN <<>>
  ELSE IF Len(pieces) = 1 THEN pieces[1]
  ELSE pieces[1] \o <<" ">> \o joinWithSpace(Tail(pieces))

NonEmpty(s) == s # <<>>

\* .split(" ").filter(Boolean)
tokens(s) == SelectSeq(split(s, " "), NonEmpty)

\* .replace(/[^a-z0-9]+/g, " "): each run outside the class becomes one
\* space; inRun says that the character before was part of such a run.
RECURSIVE replaceRuns(_, _)
replaceRuns(s, inRun) ==
  IF s = <<>> THEN <<>>
  ELSE IF IsAlnum(Head(s)) THEN <<Head(s)>> \o replaceRuns(Tail(s), FALSE)
  ELSE (IF inRun THEN <<>> ELSE <<" ">>) \o replaceRuns(Tail(s), TRUE)

\* const normalizeName = (value) =>
\*   value.toLowerCase().replace(/[^a-z0-9]+/g, " ").trim()
normalizeName(value) == trim(replaceRuns(toLowerCase(value), FALSE))

\* No name parts: { last: null, first: null, initial: null }
NoName == [last |-> None, first |-> None, initial |-> None]

\* const extractNameParts = (value) => { ... }
extractNameParts(value) ==
  LET parts == tokens(normalizeName(value))
  IN  IF Len(parts) = 0
      THEN [parts |-> <<>>, last |-> None, first |-> None, initial |-> None]
      ELSE [parts |-> parts,
            last |-> Some(parts[Len(parts)]),
            first |-> Some(parts[1]),
            initial |-> Some(<<parts[1][1]>>)]

\* const parseAuthorForMatching = (author) => { ... }
parseAuthorForMatching(author) ==
  LET trimmed == trim(author)
  IN  IF trimmed = <<>> THEN NoName
      ELSE IF "," \in Range(trimmed)
      THEN LET pieces == split(trimmed, ",")
               last == normalizeName(pieces[1])
               firstPart == trim(joinWithSpace(Tail(pieces)))
               firstTokens == tokens(normalizeName(firstPart))
               first == IF firstTokens # <<>> THEN Some(firstTokens[1]) ELSE None
           IN  [last |-> IF last # <<>> THEN Some(last) ELSE None,
                first |-> first,
                initial |-> IF first # None THEN Some(<<first[1][1]>>) ELSE None]
      ELSE LET parts == tokens(normalizeName(trimmed))
           IN  IF Len(parts) = 0 THEN NoName
               ELSE IF Len(parts) = 2 /\ Len(parts[2]) = 1
               THEN [last |-> Some(parts[1]), first |-> None, initial |-> Some(parts[2])]
               ELSE IF Len(parts) >= 2
               THEN [last |-> Some(parts[Len(parts)]), first |-> Some(parts[1]),
                     initial |-> Some(<<parts[1][1]>>)]
               ELSE [last |-> Some(parts[1]), first |-> None,
                     initial |-> Some(<<parts[1][1]>>)]

\* The callback of authors.some (lines 355-377) for one author string.
authorMatches(author, target) ==
  LET normalizedAuthor == normalizeName(author)
      parsed == parseAuthorForMatching(author)
  IN  IF normalizedAuthor = <<>> THEN FALSE
      ELSE IF \A k \in 1..Len(target.parts) : IsSubstring(target.parts[k], normalizedAuthor)
      THEN TRUE
      ELSE IF parsed.last = None THEN FALSE
      ELSE IF parsed.last # target.last THEN FALSE
      ELSE IF target.first # None /\ parsed.first # None /\ parsed.first = target.first
      THEN TRUE
      ELSE IF target.initial # None /\ parsed.initial # None
                /\ parsed.initial = target.initial
      THEN TRUE
      ELSE FALSE

\* includesAuthorName as it would be comparing last names only.
includesAuthorName_lastNameOnly(candidates, name) ==
  LET target == extractNameParts(name)
  IN  IF Len(target.parts) = 0 \/ target.last = None THEN FALSE
      ELSE \E k \in 1..Len(candidates) :
             parseAuthorForMatching(candidates[k]).last = target.last

\* const includesAuthorName = (authors, authorName) => { ... }
includesAuthorName(candidates, name) ==
  LET target == extractNameParts(name)
  IN  IF Len(target.parts) = 0 \/ target.last = None THEN FALSE
      ELSE \E k \in 1..Len(candidates) : authorMatches(candidates[k], target)

\* The target names: "Jordan Lee", "Larry Lee", "Lee", "J Lee", "" and ". ".
TargetNames ==
  { <<"J", "o", "r", "d", "a", "n", " ", "L", "e", "e">>,
    <<"L", "a", "r", "r", "y", " ", "L", "e", "e">>,
    <<"L", "e", "e">>,
    <<"J", " ", "L", "e", "e">>,
    <<>>,
    <<".", " ">> }

\* The author strings: "Lee", "Lee, J.", "Jordan A. Lee", "Jordan Smith",
\* "Lee J", "Lee, S.", "Smith, J.", ", J" and "".
AuthorStrings ==
  { <<"L", "e", "e">>,
    <<"L", "e", "e", ",", " ", "J", ".">>,
    <<"J", "o", "r", "d", "a", "n", " ", "A", ".", " ", "L", "e", "e">>,
    <<"J", "o", "r", "d", "a", "n", " ", "S", "m", "i", "t", "h">>,
    <<"L", "e", "e", " ", "J">>,
    <<"L", "e", "e", ",", " ", "S", ".">>,
    <<"S", "m", "i", "t", "h", ",", " ", "J", ".">>,
    <<",", " ", "J">>,
    <<>> }

\* includesAuthorName is about to be called.
NamesInit ==
  /\ MergeIdle
  /\ FetchIdle
  /\ RoutesIdle
  /\ UiIdle /\ MetricsIdle /\ ClassifyIdle /\ IciteIdle
  /\ authors \in UNION { [1..k -> AuthorStrings] : k \in 0..MaxAuthors }
  /\ authorName \in TargetNames
  /\ matched = None

\* includesAuthorName(authors, authorName) is called and returns.
IncludesAuthorName ==
  /\ matched = None
  /\ matched' = Some(includesAuthorName(authors, authorName))
  /\ UNCHANGED <<listVars, mergeVars, fetchVars, routeVars, uiVars, metricVars, classifyVars,
                 iciteVars, authors, authorName>>

NamesNext == IncludesAuthorName

NamesSpec == NamesInit /\ [][NamesNext]_vars

\* ------------------------------------------------------------ classifyPaper

\* "systematic review"
systematicReview ==
  <<"s", "y", "s", "t", "e", "m", "a", "t", "i", "c", " ", "r", "e", "v", "i", "e", "w">>

\* "meta-analysis"
metaAnalysis == <<"m", "e", "t", "a", "-", "a", "n", "a", "l", "y", "s", "i", "s">>

\* "scoping review"
scopingReview == <<"s", "c", "o", "p", "i", "n", "g", " ", "r", "e", "v", "i", "e", "w">>

\* The characters of the two labels of type PublicationType.
PrimaryResearchText ==
  <<"P", "r", "i", "m", "a", "r", "y", " ", "R", "e", "s", "e", "a", "r", "c", "h">>

ReviewText == <<"R", "e", "v", "i", "e", "w">>

\* inferPublicationType as it would be without the lower-casing.
inferPublicationType_caseSensitive(text) ==
  IF \/ IsSubstring(systematicReview, text)
     \/ IsSubstring(metaAnalysis, text)
     \/ IsSubstring(scopingReview, text)
  THEN "Review" ELSE "Primary Research"

\* const inferPublicationType = (abstract) => { ... }
inferPublicationType(text) ==
  LET normalized == toLowerCase(text)
  IN  IF \/ IsSubstring(systematicReview, normalized)
         \/ IsSubstring(metaAnalysis, normalized)
         \/ IsSubstring(scopingReview, normalized)
      THEN "Review" ELSE "Primary Research"

\* Lines 107-110 and 117: the label the remote content is returned as, or
\* the heuristic's label when the trimmed content is neither label.
labelFromContent(content, text) ==
  IF trim(content) = PrimaryResearchText THEN "Primary Research"
  ELSE IF trim(content) = ReviewText THEN "Review"
  ELSE inferPublicationType(text)

\* The abstracts: "A Systematic Review", "Meta-Analysis", "a scoping review x",
\* "Scoping Reviews", "review", "systematic  review", "meta analysis",
\* "metaanalysis", "x" and "".
Abstracts ==
  { <<"A", " ", "S", "y", "s", "t", "e", "m", "a", "t", "i", "c", " ", "R", "e", "v", "i", "e", "w">>,
    <<"M", "e", "t", "a", "-", "A", "n", "a", "l", "y", "s", "i", "s">>,
    <<"a", " ", "s", "c", "o", "p", "i", "n", "g", " ", "r", "e", "v", "i", "e", "w", " ", "x">>,
    <<"S", "c", "o", "p", "i", "n", "g", " ", "R", "e", "v", "i", "e", "w", "s">>,
    <<"r", "e", "v", "i", "e", "w">>,
    <<"s", "y", "s", "t", "e", "m", "a", "t", "i", "c", " ", " ", "r", "e", "v", "i", "e", "w">>,
    <<"m", "e", "t", "a", " ", "a", "n", "a", "l", "y", "s", "i", "s">>,
    <<"m", "e", "t", "a", "a", "n", "a", "l", "y", "s", "i", "s">>,
    <<"x">>,
    <<>> }

\* data.choices?.[0]?.message?.content of a parsed answer, "" when it is
\* absent: the two labels, " Review ", "review", "Review." and "".
Contents ==
  { PrimaryResearchText,
    ReviewText,
    <<" ", "R", "e", "v", "i", "e", "w", " ">>,
    <<"r", "e", "v", "i", "e", "w">>,
    <<"R", "e", "v", "i", "e", "w", ".">>,
    <<>> }

\* classifyPaper is called.
ClassifyInit ==
  /\ MergeIdle
  /\ FetchIdle
  /\ RoutesIdle
  /\ UiIdle /\ MetricsIdle /\ NamesIdle /\ IciteIdle
  /\ abstract \in Abstracts
  /\ configured \in BOOLEAN
  /\ classifyPc = "start"
  /\ remote = None
  /\ label = None

\* Neither variable of the environment is set: the heuristic (lines 78, 117).
NotConfigured ==
  /\ classifyPc = "start"
  /\ ~configured
  /\ label' = Some(inferPublicationType(abstract))
  /\ classifyPc' = "done"
  /\ UNCHANGED <<listVars, mergeVars, fetchVars, routeVars, uiVars, metricVars, nameVars,
                 iciteVars, abstract, configured, remote>>

\* The request to the remote classifier is made (lines 80-101).
CallRemote ==
  /\ classifyPc = "start"
  /\ configured
  /\ classifyPc' = "awaiting"
  /\ UNCHANGED <<listVars, mergeVars, fetchVars, routeVars, uiVars, metricVars, nameVars,
                 iciteVars, abstract, configured, remote, label>>

\* fetch throws: the catch block, then the heuristic (lines 112-117).
RemoteThrows ==
  /\ classifyPc = "awaiting"
  /\ remote' = Some([kind |-> "throws", content |-> <<>>])
  /\ label' = Some(inferPublicationType(abstract))
  /\ classifyPc' = "done"
  /\ UNCHANGED <<listVars, mergeVars, fetchVars, routeVars, uiVars, metricVars, nameVars,
                 iciteVars, abstract, configured>>

\* A non-OK answer: the heuristic (lines 103, 117).
RemoteNotOk ==
  /\ classifyPc = "awaiting"
  /\ remote' = Some([kind |-> "notOk", content |-> <<>>])
  /\ label' = Some(inferPublicationType(abstract))
  /\ classifyPc' = "done"
  /\ UNCHANGED <<listVars, mergeVars, fetchVars, routeVars, uiVars, metricVars, nameVars,
                 iciteVars, abstract, configured>>

\* An OK answer: its body is awaited (lines 103-104).
RemoteOk ==
  /\ classifyPc = "awaiting"
  /\ classifyPc' = "parsing"
  /\ UNCHANGED <<listVars, mergeVars, fetchVars, routeVars, uiVars, metricVars, nameVars,
                 iciteVars, abstract, configured, remote, label>>

\* response.json() throws, or the content is not a string and has no trim:
\* the catch block, then the heuristic (lines 104-117).
BodyUnreadable ==
  /\ classifyPc = "parsing"
  /\ remote' = Some([kind |-> "unreadable", content |-> <<>>])
  /\ label' = Some(inferPublicationType(abstract))
  /\ classifyPc' = "done"
  /\ UNCHANGED <<listVars, mergeVars, fetchVars, routeVars, uiVars, metricVars, nameVars,
                 iciteVars, abstract, configured>>

\* The body is parsed and its content examined (lines 104-117).
BodyRead ==
  /\ classifyPc = "parsing"
  /\ \E content \in Contents :
       /\ remote' = Some([kind |-> "content", content |-> content])
       /\ label' = Some(labelFromContent(content, abstract))
  /\ classifyPc' = "done"
  /\ UNCHANGED <<listVars, mergeVars, fetchVars, routeVars, uiVars, metricVars, nameVars,
                 iciteVars, abstract, configured>>

ClassifyNext ==
  \/ NotConfigured
  \/ CallRemote
  \/ RemoteThrows
  \/ RemoteNotOk
  \/ RemoteOk
  \/ BodyUnreadable
  \/ BodyRead

ClassifySpec == ClassifyInit /\ [][ClassifyNext]_vars

\* ------------------------------------------------------- the iCite route

\* The size of a batch: chunkArray(uniquePmids, 200).
BatchSize == 200

\* Largest number of batches of one request.
MaxBatches == 3

\* const chunkArray = (items, size) => { ... }
RECURSIVE chunkArray(_, _)
chunkArray(items, size) ==
  IF Len(items) = 0 THEN <<>>
  ELSE IF Len(items) <= size THEN <<items>>
  ELSE <<SubSeq(items, 1, size)>> \o chunkArray(SubSeq(items, size + 1, Len(items)), size)

\* const batches = chunkArray(uniquePmids, 200)
batches(pmids) == chunkArray(pmids, BatchSize)

\* The entries the loop of lines 48-56 stores for a batch whose body was
\* parsed: iCite answers with a record for each identifier, every third
\* one without a finite relative_citation_ratio.
entriesOf(batch) == { <<batch[k], 4>> : k \in { j \in 1..Len(batch) : batch[j] % 3 # 0 } }

\* results[record.pmid] = rcr, for each entry.
assigned(stored, entries) ==
  { e \in stored : \A n \in entries : n[1] # e[1] } \cup entries

\* The numbers of identifiers of a request: none, and for each number of
\* batches a last batch of one, of one less than a full one, and a full one.
PmidCounts ==
  {0} \cup { b * BatchSize + r : b \in 0..(MaxBatches - 1), r \in {1, BatchSize - 1, BatchSize} }

\* POST is called with a list of distinct identifiers.
IciteInit ==
  /\ MergeIdle
  /\ FetchIdle
  /\ RoutesIdle
  /\ UiIdle /\ MetricsIdle /\ NamesIdle /\ ClassifyIdle
  /\ \E n \in PmidCounts : uniquePmids = [i \in 1..n |-> i]
  /\ batchesDone = 0
  /\ requested = <<>>
  /\ iciteResults = {}
  /\ icitePc = "start"

\* The next iteration of the loop over batches requests its batch, or the
\* loop is over and the results are returned (lines 30-35, 59).
NextBatch(k) ==
  IF k < Len(batches(uniquePmids))
  THEN /\ requested' = Append(requested, [batch |-> batches(uniquePmids)[k + 1],
                                          outcome |-> "pending"])
       /\ icitePc' = "awaiting"
  ELSE /\ requested' = requested
       /\ icitePc' = "returned"

\* The outcome of the batch being requested is recorded, then NextBatch.
Continue(outcome, k) ==
  IF k < Len(batches(uniquePmids))
  THEN /\ requested' =
            Append([requested EXCEPT ![Len(requested)].outcome = outcome],
                   [batch |-> batches(uniquePmids)[k + 1], outcome |-> "pending"])
       /\ icitePc' = "awaiting"
  ELSE /\ requested' = [requested EXCEPT ![Len(requested)].outcome = outcome]
       /\ icitePc' = "returned"

\* POST runs up to its first request (lines 21-35), or returns at once when
\* there is no identifier (lines 23-25).
Post ==
  /\ icitePc = "start"
  /\ NextBatch(0)
  /\ UNCHANGED <<listVars, mergeVars, fetchVars, routeVars, uiVars, metricVars, nameVars,
                 classifyVars, uniquePmids, batchesDone, iciteResults>>

\* fetch throws: the error is logged and the loop continues (lines 36-40).
BatchThrows ==
  /\ icitePc = "awaiting"
  /\ batchesDone' = batchesDone + 1
  /\ Continue("throws", batchesDone + 1)
  /\ UNCHANGED <<listVars, mergeVars, fetchVars, routeVars, uiVars, metricVars, nameVars,
                 classifyVars, uniquePmids, iciteResults>>

\* A non-OK answer: it is logged and the loop continues (lines 42-45).
BatchNotOk ==
  /\ icitePc = "awaiting"
  /\ batchesDone' = batchesDone + 1
  /\ Continue("notOk", batchesDone + 1)
  /\ UNCHANGED <<listVars, mergeVars, fetchVars, routeVars, uiVars, metricVars, nameVars,
                 classifyVars, uniquePmids, iciteResults>>

\* An OK answer: its body is awaited (line 47).
BatchOk ==
  /\ icitePc = "awaiting"
  /\ icitePc' = "parsing"
  /\ UNCHANGED <<listVars, mergeVars, fetchVars, routeVars, uiVars, metricVars, nameVars,
                 classifyVars, uniquePmids, batchesDone, requested, iciteResults>>

\* response.json() throws: no try block encloses line 47, so POST rejects.
BatchUnparseable ==
  /\ icitePc = "parsing"
  /\ requested' = [requested EXCEPT ![Len(requested)].outcome = "unparseable"]
  /\ icitePc' = "threw"
  /\ UNCHANGED <<listVars, mergeVars, fetchVars, routeVars, uiVars, metricVars, nameVars,
                 classifyVars, uniquePmids, batchesDone, iciteResults>>

\* The body is parsed and its records stored; the loop continues
\* (lines 47-57).
BatchParsed ==
  /\ icitePc = "parsing"
  /\ iciteResults' = assigned(iciteResults, entriesOf(requested[Len(requested)].batch))
  /\ batchesDone' = batchesDone + 1
  /\ Continue("parsed", batchesDone + 1)
  /\ UNCHANGED <<listVars, mergeVars, fetchVars, routeVars, uiVars, metricVars, nameVars,
                 classifyVars, uniquePmids>>

IciteNext ==
  \/ Post
  \/ BatchThrows
  \/ BatchNotOk
  \/ BatchOk
  \/ BatchUnparseable
  \/ BatchParsed

IciteSpec == IciteInit /\ [][IciteNext]_vars

\* ----------------------------------------------------------- fetchWithRetry

\* The variables outside the provider routes.
outsideRoutes ==
  <<listVars, mergeVars, fetchVars, uiVars, metricVars, nameVars, classifyVars, iciteVars>>

OutsideRoutesIdle ==
  /\ MergeIdle
  /\ FetchIdle
  /\ UiIdle /\ MetricsIdle /\ NamesIdle /\ ClassifyIdle /\ IciteIdle

\* attempts = 5 (the PubMed route)
PubMedAttempts == 5

\* attempts = 3 (the Web of Science route)
WosAttempts == 3

\* What a call of fetchWithTimeout can throw: the abort of the timer, or
\* the error of fetch itself.
FetchErrors == {"AbortError", "TypeError"}

\* What a call of fetchWithTimeout can return: a response, OK or not.
FetchResponses == {"ok", "notOk"}

\* retryAfterThrow as it would be with attempt <= attempts as loop condition.
retryAfterThrow_oneMore(n, limit) == n <= limit

\* The loop condition attempt < attempts, after attempt += 1.
retryAfterThrow(n, limit) == n < limit

\* fetchWithRetry is called and makes its first call of fetchWithTimeout
\* (attempts is positive, so the loop is entered).
RetryInit ==
  /\ OutsideRoutesIdle
  /\ ScopusIdle
  /\ attempts \in {PubMedAttempts, WosAttempts}
  /\ attempt = 0
  /\ lastError = None
  /\ calls = <<>>
  /\ retryPc = "calling"
  /\ retryResult = None

\* The call returns a response: fetchWithRetry returns it.
CallReturns ==
  /\ retryPc = "calling"
  /\ \E response \in FetchResponses :
       /\ calls' = Append(calls, [threw |-> FALSE, value |-> response])
       /\ retryResult' = Some(response)
  /\ retryPc' = "returned"
  /\ UNCHANGED <<outsideRoutes, scopusVars, attempts, attempt, lastError>>

\* The call throws (fetch rejects, or the timer aborts it): the error is
\* kept and the loop goes on, or ends and the error is thrown.
CallThrows ==
  /\ retryPc = "calling"
  /\ \E error \in FetchErrors :
       /\ calls' = Append(calls, [threw |-> TRUE, value |-> error])
       /\ lastError' = Some(error)
       /\ IF retryAfterThrow(attempt + 1, attempts)
          THEN retryPc' = "calling" /\ retryResult' = retryResult
          ELSE retryPc' = "threw" /\ retryResult' = Some(error)
  /\ attempt' = attempt + 1
  /\ UNCHANGED <<outsideRoutes, scopusVars, attempts>>

RetryNext == CallReturns \/ CallThrows

\* Every call of fetchWithTimeout settles: fetch answers or fails, or the
\* timer aborts it after 25 seconds.
RetrySpec == RetryInit /\ [][RetryNext]_vars /\ WF_vars(RetryNext)

\* ------------------------------------- the Scopus route and fetchFromScopus

\* const count = 25
ScopusPageSize == 25

\* The largest number of pages of one search.
MaxPages == 2

\* The numbers of entries a page of the upstream answer can hold.
PageLengths == {0, 1, ScopusPageSize}

\* opensearch:totalResults of a page: absent (or not a number), or a number.
TotalTexts ==
  {None} \cup {Some(n) : n \in {0, 1, ScopusPageSize + 1, 2 * ScopusPageSize}}

\* NextResponse.json({ publications }): status 200 always.
routeAnswer(count) == Some([ok |-> TRUE, publications |-> count])

\* total after a page: set from the first page that carries a number.
totalAfter(total, totalText) == IF total = None THEN totalText ELSE total

\* Whether the loop goes on after a page of length entries has been pushed.
anotherPage(length, start, total) ==
  /\ length # 0
  /\ ~(length < ScopusPageSize /\ total = None)
  /\ (total = None \/ start < total[1])

\* The route is called with one name (hasName, after trim and filter) or
\* none, and no date range; the API key is configured or not.
ScopusInit ==
  /\ OutsideRoutesIdle
  /\ RetryIdle
  /\ hasName \in BOOLEAN
  /\ hasApiKey \in BOOLEAN
  /\ scopusPc = "start"
  /\ scopusStart = 0
  /\ scopusTotal = None
  /\ pages = <<>>
  /\ failure = None
  /\ routeResponse = None

\* names.length === 0: an empty list, without any call of the adapter.
NoNames ==
  /\ scopusPc = "start"
  /\ ~hasName
  /\ routeResponse' = routeAnswer(0)
  /\ scopusPc' = "answered"
  /\ UNCHANGED <<outsideRoutes, retryVars, hasName, hasApiKey, scopusStart, scopusTotal,
                 pages, failure>>

\* No API key: fetchFromScopus logs and returns [], which the route answers.
MissingApiKey ==
  /\ scopusPc = "start"
  /\ hasName
  /\ ~hasApiKey
  /\ failure' = Some("missingKey")
  /\ routeResponse' = routeAnswer(0)
  /\ scopusPc' = "answered"
  /\ UNCHANGED <<outsideRoutes, retryVars, hasName, hasApiKey, scopusStart, scopusTotal,
                 pages>>

\* The loop is entered (total == null) and the first page requested.
StartFetch ==
  /\ scopusPc = "start"
  /\ hasName
  /\ hasApiKey
  /\ scopusPc' = "awaiting"
  /\ UNCHANGED <<outsideRoutes, retryVars, hasName, hasApiKey, scopusStart, scopusTotal,
                 pages, failure, routeResponse>>

\* fetch rejects: the catch block returns [], the entries of earlier pages
\* are dropped.
PageThrows ==
  /\ scopusPc = "awaiting"
  /\ failure' = Some("threw")
  /\ routeResponse' = routeAnswer(0)
  /\ scopusPc' = "answered"
  /\ UNCHANGED <<outsideRoutes, retryVars, hasName, hasApiKey, scopusStart, scopusTotal,
                 pages>>

\* A non-OK upstream status: logged, return [].
PageNotOk ==
  /\ scopusPc = "awaiting"
  /\ failure' = Some("notOk")
  /\ routeResponse' = routeAnswer(0)
  /\ scopusPc' = "answered"
  /\ UNCHANGED <<outsideRoutes, retryVars, hasName, hasApiKey, scopusStart, scopusTotal,
                 pages>>

\* An OK upstream answer, whose body is read next.
PageOk ==
  /\ scopusPc = "awaiting"
  /\ Len(pages) < MaxPages
  /\ scopusPc' = "parsing"
  /\ UNCHANGED <<outsideRoutes, retryVars, hasName, hasApiKey, scopusStart, scopusTotal,
                 pages, failure, routeResponse>>

\* response.json() throws: the catch block returns [].
PageUnparseable ==
  /\ scopusPc = "parsing"
  /\ failure' = Some("unparseable")
  /\ routeResponse' = routeAnswer(0)
  /\ scopusPc' = "answered"
  /\ UNCHANGED <<outsideRoutes, retryVars, hasName, hasApiKey, scopusStart, scopusTotal,
                 pages>>

\* The body parses: the page's entries are pushed, and the loop goes on
\* with the next page or ends; at its end every entry becomes a
\* publication (classifyPaper never throws) and the route answers them.
PageParsed ==
  /\ scopusPc = "parsing"
  /\ \E length \in PageLengths : \E totalText \in TotalTexts :
       /\ pages' = Append(pages, [entries |-> length, totalText |-> totalText])
       /\ scopusTotal' = totalAfter(scopusTotal, totalText)
       /\ scopusStart' = scopusStart + length
       /\ IF anotherPage(length, scopusStart', scopusTotal')
          THEN scopusPc' = "awaiting" /\ routeResponse' = routeResponse
          ELSE scopusPc' = "answered" /\ routeResponse' = routeAnswer(scopusStart')
  /\ UNCHANGED <<outsideRoutes, retryVars, hasName, hasApiKey, failure>>

ScopusNext ==
  \/ NoNames
  \/ MissingApiKey
  \/ StartFetch
  \/ PageThrows
  \/ PageNotOk
  \/ PageOk
  \/ PageUnparseable
  \/ PageParsed

ScopusSpec == ScopusInit /\ [][ScopusNext]_vars

\* ------------------------------------------------- vocabulary of the claims

\* The maps as they are when the i-th record is about to be processed.
MapsBefore(i) == upsertAll(EmptyMaps, SubSeq(Inputs, 1, i - 1))

\* The record has a DOI key or a title key.
Identifiable(p) == normalizeDoi(p.doi) # <<>> \/ normalizeTitle(p.title) # <<>>

\* The i-th record matched no canonical record when it was processed.
Creates(i) ==
  Identifiable(Inputs[i]) /\ existingOf(MapsBefore(i), Inputs[i]) = None

\* A record's merge key: its DOI key when it has one, else its title key.
MergeKey(r) ==
  IF normalizeDoi(r.doi) # <<>> THEN normalizeDoi(r.doi) ELSE normalizeTitle(r.title)

\* The record has no DOI, or one that is blank.
DoiLess(p) == p.doi = None \/ \A k \in 1..Len(p.doi[1]) : IsSpace(p.doi[1][k])

\* The words of a title: its maximal runs of letters and digits, lower-cased.
RECURSIVE WordsFrom(_, _, _)
WordsFrom(s, word, acc) ==
  IF s = <<>> THEN (IF word = <<>> THEN acc ELSE Append(acc, word))
  ELSE IF Lower(Head(s)) \in {"a", "b", "c", "x", "y"}
       THEN WordsFrom(Tail(s), Append(word, Lower(Head(s))), acc)
       ELSE WordsFrom(Tail(s), <<>>, IF word = <<>> THEN acc ELSE Append(acc, word))

Words(title) == WordsFrom(title, <<>>, <<>>)

\* The letters and digits of a title, in order.
RECURSIVE Flatten(_)
Flatten(ws) == IF ws = <<>> THEN <<>> ELSE Head(ws) \o Flatten(Tail(ws))

Letters(title) == Flatten(Words(title))

\* The returned array, once mergePublications has returned.
Returned == result # None

Output == result[1]

\* ------------------------------------------------------------------- C1

\* C1: the number of records mergePublications returns equals the number of
\* input records that matched no canonical record when they were processed.
C1_OneRecordPerUnmatchedInput ==
  Returned =>
    Len(Output) = Cardinality({i \in 1..Len(Inputs) : Creates(i)})

\* ------------------------------------------------------------------- C2

\* C2: no two records of the returned list have the same merge key.
C2_MergeKeysDistinct ==
  Returned =>
    \A i, j \in 1..Len(Output) : i # j => MergeKey(Output[i]) # MergeKey(Output[j])

\* ------------------------------------------------------------------- C3

\* C3: for every input record with a non-empty normalized DOI, exactly one
\* returned record carries that DOI.
C3_OneRecordPerDoi ==
  Returned =>
    \A i \in 1..Len(Inputs) :
      normalizeDoi(Inputs[i].doi) # <<>> =>
        Cardinality({k \in 1..Len(Output) :
                       normalizeDoi(Output[k].doi) = normalizeDoi(Inputs[i].doi)}) = 1

\* ------------------------------------------------------------------- C4

StoredFor(p) ==
  MapGet(maps'.merged,
         IF normalizeDoi(p.doi) # <<>> THEN normalizeDoi(p.doi)
         ELSE normalizeTitle(p.title))

\* C5: a step that merges a record into a canonical record stores a record
\* whose sources are the canonical record's sources together with the
\* incoming record's provider, and whose sourceUrls has an entry for every
\* provider the canonical record had one for and for the incoming record's
\* provider when that record carried a URL.
C5_MergeStep ==
  (done' = done + 1 /\ existingOf(maps, Inputs[done + 1]) # None) =>
    LET p == Inputs[done + 1]
        e == existingOf(maps, p)[1]
        r == StoredFor(p)
    IN  /\ r # None
        /\ Range(r[1].sources[1]) = Range(SourcesOf(e)) \cup {p.source}
        /\ \A q \in PublicationSource :
             (SourceUrlsOf(e)[q] # None \/ (q = p.source /\ p.url # None)) =>
               r[1].sourceUrls[1][q] # None

C5_SourceUnion == [][C5_MergeStep]_vars

\* A PubMed record and a Scopus record with the same DOI, both carrying a URL,
\* gave one record with both providers in sources and in sourceUrls.
C5_Witness ==
  /\ Returned
  /\ Len(pubmedPublications) = 1 /\ Len(scopusPublications) = 1
  /\ Len(wosPublications) = 0
  /\ normalizeDoi(Inputs[1].doi) # <<>>
  /\ normalizeDoi(Inputs[1].doi) = normalizeDoi(Inputs[2].doi)
  /\ Inputs[1].url # None /\ Inputs[2].url # None
  /\ Len(Output) = 1
  /\ Range(Output[1].sources[1]) = {"PubMed", "Scopus"}
  /\ Output[1].sourceUrls[1]["PubMed"] # None
  /\ Output[1].sourceUrls[1]["Scopus"] # None
  /\ Output[1].sourceUrls[1]["Web of Science"] = None

\* ------------------------------------------------------------------- C6

\* An input record is matched to a returned record's publication by DOI, or
\* by normalized title when one of the two has no DOI.
MatchedTo(p, r) ==
  \/ /\ normalizeDoi(p.doi) # <<>>
     /\ normalizeDoi(p.doi) = normalizeDoi(r.doi)
  \/ /\ normalizeTitle(p.title) # <<>>
     /\ normalizeTitle(p.title) = normalizeTitle(r.title)
     /\ (normalizeDoi(p.doi) = <<>> \/ normalizeDoi(r.doi) = <<>>)

\* C6: no returned record carries a citation count below that of an input
\* record matched to its publication.
C6_CitationMax ==
  Returned =>
    \A k \in 1..Len(Output) : \A i \in 1..Len(Inputs) :
      MatchedTo(Inputs[i], Output[k]) =>
        Output[k].citationCount >= Inputs[i].citationCount

\* ------------------------------------------------------------------- C7

\* C7: every canonical record has the title, journal, date, authors, abstract
\* and classification of the input record that created it, whatever was
\* merged into it.
C7_FirstWriterWins ==
  \A k \in 1..Len(maps.merged) :
    LET r == maps.merged[k].value
    IN  \E i \in 1..done :
          /\ Creates(i)
          /\ Inputs[i].id = r.id
          /\ Inputs[i].title = r.title
          /\ Inputs[i].journal = r.journal
          /\ Inputs[i].date = r.date
          /\ Inputs[i].authors = r.authors
          /\ Inputs[i].abstract = r.abstract
          /\ Inputs[i].aiPublicationType = r.aiPublicationType

\* A returned record into which a later record with another title was merged.
C7_Witness ==
  /\ Returned
  /\ \E k \in 1..Len(Output) : \E i, j \in 1..Len(Inputs) :
       /\ i < j
       /\ Output[k].id = Inputs[i].id
       /\ Inputs[j].title # Inputs[i].title
       /\ Inputs[j].source \in Range(Output[k].sources[1])
       /\ Inputs[j].source # Inputs[i].source

\* ------------------------------------------------------------------- C8

\* The record has no DOI after trimming and no letter or digit in its title.
Unidentified(p) ==
  /\ p.doi = None \/ trim(p.doi[1]) = <<>>
  /\ \A k \in 1..Len(p.title) : Lower(p.title[k]) \notin {"a", "b", "c", "x", "y"}

\* The sequence without its i-th element.
RemoveAt(s, i) == SubSeq(s, 1, i - 1) \o SubSeq(s, i + 1, Len(s))

\* C8: a record with no DOI after trimming and no alphanumeric character in
\* its title is dropped: no returned record has its id, and the returned list
\* is the one mergePublications returns without that record.
C8_UnidentifiedDropped ==
  Returned =>
    \A i \in 1..Len(Inputs) :
      Unidentified(Inputs[i]) =>
        /\ \A k \in 1..Len(Output) : Output[k].id # Inputs[i].id
        /\ Output = MapValues(upsertAll(EmptyMaps, RemoveAt(Inputs, i)).merged)

\* An unidentified record was processed between two records that merged.
C8_Witness ==
  /\ Returned
  /\ Len(Inputs) = 3
  /\ Unidentified(Inputs[2])
  /\ Len(Output) = 1
  /\ Range(Output[1].sources[1]) = {Inputs[1].source, Inputs[3].source}
  /\ Inputs[1].source # Inputs[3].source

\* ------------------------------------------------------------------- C9

\* C9: the three requests are issued together, and fetchPublications goes on
\* past its await (to read responses, to return or to reject) only when none
\* of the three is still pending.
C9_WaitsForAllThree ==
  /\ (\E p \in PublicationSource : status[p] # "idle") =>
       (\A p \in PublicationSource : status[p] # "idle")
  /\ (pc \in {"reading", "returned", "rejected"} \/ fetchResult # None) =>
       (\A p \in PublicationSource : status[p] # "pending")

\* fetchPublications returned after one request was rejected, one answered
\* OK and one answered non-OK.
C9_Witness ==
  /\ fetchResult # None
  /\ pc = "returned"
  /\ status["PubMed"] = "rejected"
  /\ status["Scopus"] = "ok"
  /\ status["Web of Science"] = "notOk"

\* ------------------------------------------------------------------ C10

\* C10: the returned errors hold exactly one message for each provider whose
\* request was rejected or answered non-OK, none for any other provider, and
\* every message begins with the name of a provider.
C10_OneErrorPerFailedProvider ==
  fetchResult # None =>
    LET errs == fetchResult[1].errors
    IN  /\ \A k \in 1..Len(errs) : errs[k][1] \in PublicationSource
        /\ \A p \in PublicationSource :
             Cardinality({k \in 1..Len(errs) : errs[k][1] = p}) =
               (IF status[p] \in {"rejected", "notOk"} THEN 1 ELSE 0)

\* A result with two errors: one request rejected, one answered non-OK, and
\* the third provider's record returned.
C10_Witness ==
  /\ fetchResult # None
  /\ status["PubMed"] = "ok"
  /\ status["Scopus"] = "rejected"
  /\ status["Web of Science"] = "notOk"
  /\ Len(fetchResult[1].errors) = 2
  /\ fetchResult[1].errors[1][1] = "Scopus"
  /\ fetchResult[1].errors[2][1] = "Web of Science"
  /\ Len(fetchResult[1].publications) = 1

\* ------------------------------------------------------------------ C11

\* The providers that have failed: the request was rejected or answered
\* non-OK, or the body of its response could not be read.
FailedProviders ==
  {p \in PublicationSource : status[p] \in {"rejected", "notOk"}}
    \cup (IF pc = "rejected" /\ responses # <<>> THEN {Head(responses).source} ELSE {})

\* C11: when one provider alone has failed, in whichever way, the promise
\* fetchPublications returned does not reject.
C11_NeverRejectsOnOneFailure ==
  Cardinality(FailedProviders) = 1 => pc # "rejected"

\* ------------------------------------------------------------------ C12

\* The Scopus request failed and PubMed and Web of Science each answered OK
\* with at least one record.
ScopusAloneFailed ==
  /\ fetchResult # None
  /\ status["Scopus"] \in {"rejected", "notOk"}
  /\ status["PubMed"] = "ok" /\ Len(pubmedPublications) >= 1
  /\ status["Web of Science"] = "ok" /\ Len(wosPublications) >= 1

\* C12 as stated: then the result has exactly one error and at least one
\* publication.
C12_AsStated ==
  ScopusAloneFailed =>
    /\ Len(fetchResult[1].errors) = 1
    /\ Len(fetchResult[1].publications) > 0

\* A record with a DOI, or with a letter or digit in its title.
Usable(p) ==
  \/ p.doi # None /\ \E k \in 1..Len(p.doi[1]) : ~IsSpace(p.doi[1][k])
  \/ \E k \in 1..Len(p.title) : Lower(p.title[k]) \in {"a", "b", "c", "x", "y"}

\* C12, amended: then the result has exactly one error, and at least one
\* publication provided one of the records has a DOI or a letter or digit in
\* its title.
C12_PartialFailure ==
  ScopusAloneFailed =>
    /\ Len(fetchResult[1].errors) = 1
    /\ (\E i \in 1..Len(Inputs) : Usable(Inputs[i])) =>
         Len(fetchResult[1].publications) > 0

\* Scopus was rejected and the two other providers' records were returned.
C12_Witness ==
  /\ ScopusAloneFailed
  /\ status["Scopus"] = "rejected"
  /\ \A i \in 1..Len(Inputs) : Usable(Inputs[i])
  /\ Len(fetchResult[1].errors) = 1
  /\ fetchResult[1].errors[1][1] = "Scopus"
  /\ Len(fetchResult[1].publications) = 2

\* ------------------------------------------------------------------ C13

\* C13: a result returned after all three requests failed has no publication
\* and one message per provider; and a result that holds the generic message
\* holds nothing else and is returned when no provider has a message.
C13_AllFailed ==
  fetchResult # None =>
    LET errs == fetchResult[1].errors
    IN  /\ (\A p \in PublicationSource : status[p] \in {"rejected", "notOk"}) =>
             /\ fetchResult[1].publications = <<>>
             /\ Len(errs) = 3
             /\ \A p \in PublicationSource : \E k \in 1..Len(errs) : errs[k][1] = p
        /\ (\E k \in 1..Len(errs) : errs[k] = genericMessage) =>
             /\ Len(errs) = 1
             /\ \A p \in PublicationSource : status[p] \notin {"rejected", "notOk"}

\* All three failed, two rejected and one answered non-OK, and the result
\* was returned.
C13_Witness ==
  /\ fetchResult # None
  /\ status["PubMed"] = "rejected"
  /\ status["Scopus"] = "notOk"
  /\ status["Web of Science"] = "rejected"
  /\ fetchResult[1].publications = <<>>
  /\ Len(fetchResult[1].errors) = 3

\* C14: once a search has settled, the displayed messages are the single
\* "no results" message exactly when fetchPublications returned no
\* publication and no error; when it returned no publication and at least
\* one error, the displayed messages are exactly its errors.
C14_NoResultsMessage ==
  hsPc = "settled" =>
    /\ errorMessages = <<noResultsMessage>> <=>
         /\ fetchResult # None
         /\ Len(fetchResult[1].publications) = 0
         /\ Len(fetchResult[1].errors) = 0
    /\ fetchResult # None
         /\ Len(fetchResult[1].publications) = 0
         /\ Len(fetchResult[1].errors) >= 1
       => /\ errorMessages = fetchResult[1].errors
          /\ \A i \in 1..Len(errorMessages) : errorMessages[i] # noResultsMessage

\* A search that found nothing and met no failure shows the message.
C14_Witness ==
  /\ hsPc = "settled"
  /\ fetchResult # None
  /\ \A p \in PublicationSource : status[p] = "ok"
  /\ Len(fetchResult[1].publications) = 0
  /\ errorMessages = <<noResultsMessage>>

\* The number of papers with at least i citations.
AtLeast(list, i) == Cardinality({ k \in 1..Len(list) : list[k].citationCount >= i })

\* The list rearranged by a permutation of its indices.
Rearranged(list, f) == [k \in 1..Len(list) |-> list[f[k]]]

\* C15: calculateHIndex returns the largest rank i whose count, in
\* descending order, is at least i (that is: at least i papers have at
\* least i citations), 0 when there is none, whatever the order of the
\* list; the counts 34, 57, 12 give 3.
C15_HIndex ==
  /\ calculateHIndex(mockPublications) = 3
  /\ hIndex # None =>
       /\ hIndex[1] \in 0..Len(papers)
       /\ \A i \in 1..Len(papers) : i <= hIndex[1] <=> AtLeast(papers, i) >= i
       /\ \A f \in Permutations(1..Len(papers)) :
            calculateHIndex(Rearranged(papers, f)) = hIndex[1]

\* The scan stopped before the end of an unsorted list with a positive index.
C15_Witness ==
  /\ hIndex # None
  /\ hIndex[1] > 0
  /\ hIndex[1] < Len(papers)
  /\ \E k \in 1..(Len(papers) - 1) :
       papers[k].citationCount < papers[k + 1].citationCount

\* The sum of the rcr of the papers at the given indices, in tenths.
RECURSIVE SumOver(_, _)
SumOver(list, indices) ==
  IF indices = {} THEN 0
  ELSE LET k == CHOOSE j \in indices : TRUE
       IN  (IF list[k].rcr = None THEN 0 ELSE list[k].rcr[1])
             + SumOver(list, indices \ {k})

\* C16: calculateWeightedRCR returns the sum of the rcr of all the papers,
\* a paper without rcr counting for zero, without any division; the empty
\* list gives 0.
C16_WeightedRcrIsSum ==
  /\ calculateWeightedRCR(<<>>) = 0
  /\ weightedRcr # None => weightedRcr[1] = SumOver(papers, 1..Len(papers))

\* The rates 2.1, absent, 0.4 gave 2.5.
C16_Witness ==
  /\ Len(papers) = 3
  /\ papers[1].rcr = Some(21)
  /\ papers[2].rcr = None
  /\ papers[3].rcr = Some(4)
  /\ weightedRcr = Some(25)

\* The normalized tokens of a name.
NameTokens(name) == tokens(normalizeName(name))

\* Every token of the target is a substring of the normalized candidate.
FastPath(candidate, name) ==
  \A k \in 1..Len(NameTokens(name)) :
    IsSubstring(NameTokens(name)[k], normalizeName(candidate))

\* The candidate parses to the target's last name with the target's first
\* name or the target's initial.
ParsedMatch(candidate, name) ==
  LET parsed == parseAuthorForMatching(candidate)
      t == NameTokens(name)
  IN  /\ parsed.last = Some(t[Len(t)])
      /\ parsed.first = Some(t[1]) \/ parsed.initial = Some(<<t[1][1]>>)

JordanLee == <<"J", "o", "r", "d", "a", "n", " ", "L", "e", "e">>

\* C17: includesAuthorName is true exactly when the target has a token and
\* some candidate passes the fast path or parses to the target's last name
\* with its first name or its initial; "Jordan Lee" matches "Lee, J." and
\* "Jordan A. Lee" and does not match "Jordan Smith".
C17_NameMatch ==
  /\ includesAuthorName(<< <<"L", "e", "e", ",", " ", "J", ".">> >>, JordanLee)
  /\ includesAuthorName(
       << <<"J", "o", "r", "d", "a", "n", " ", "A", ".", " ", "L", "e", "e">> >>,
       JordanLee)
  /\ ~includesAuthorName(
       << <<"J", "o", "r", "d", "a", "n", " ", "S", "m", "i", "t", "h">> >>,
       JordanLee)
  /\ matched # None =>
       matched[1] =
         (IF NameTokens(authorName) = <<>> THEN FALSE
          ELSE \E k \in 1..Len(authors) :
                 FastPath(authors[k], authorName) \/ ParsedMatch(authors[k], authorName))

\* "Jordan Lee" was matched by "Lee, J." alone, which fails the fast path.
C17_Witness ==
  /\ authorName = JordanLee
  /\ authors = << <<"L", "e", "e", ",", " ", "J", ".">> >>
  /\ ~FastPath(authors[1], authorName)
  /\ matched = Some(TRUE)

\* The label of the keyword rule: Review when the lower-cased abstract
\* contains one of the three phrases.
KeywordLabel(text) ==
  IF \E phrase \in {systematicReview, metaAnalysis, scopingReview} :
       \E i \in 1..Len(text) :
         /\ i + Len(phrase) - 1 <= Len(text)
         /\ \A k \in 1..Len(phrase) : Lower(text[i + k - 1]) = phrase[k]
  THEN "Review" ELSE "Primary Research"

\* The remote classifier was not asked, or threw, or answered non-OK, or
\* its body could not be read.
NoRemoteAnswer ==
  \/ ~configured
  \/ remote # None /\ remote[1].kind \in {"throws", "notOk", "unreadable"}

\* C18, as stated: classifyPaper always returns one of the two labels, and
\* whenever the remote classifier gave no answer or answered with anything
\* other than exactly one of the two labels, the label is the keyword rule's.
C18_AsStated ==
  classifyPc = "done" =>
    /\ label # None
    /\ label[1] \in {"Primary Research", "Review"}
    /\ \/ NoRemoteAnswer
       \/ /\ remote # None
          /\ remote[1].kind = "content"
          /\ remote[1].content \notin {PrimaryResearchText, ReviewText}
       => label[1] = KeywordLabel(abstract)

\* The content without the blanks around it.
Stripped(s) ==
  IF \A k \in 1..Len(s) : s[k] = " " THEN <<>>
  ELSE LET lo == CHOOSE i \in 1..Len(s) : s[i] # " " /\ \A j \in 1..(i - 1) : s[j] = " "
           hi == CHOOSE i \in 1..Len(s) : s[i] # " " /\ \A j \in (i + 1)..Len(s) : s[j] = " "
       IN  SubSeq(s, lo, hi)

\* C18: classifyPaper always returns one of the two labels; whenever the
\* remote classifier gave no answer, or answered with content that is not
\* one of the two labels once the white space around it is removed, the
\* label is the keyword rule's; otherwise it is the label answered.
C18_Total ==
  classifyPc = "done" =>
    /\ label # None
    /\ label[1] \in {"Primary Research", "Review"}
    /\ IF NoRemoteAnswer THEN label[1] = KeywordLabel(abstract)
       ELSE IF Stripped(remote[1].content) = PrimaryResearchText
       THEN label[1] = "Primary Research"
       ELSE IF Stripped(remote[1].content) = ReviewText
       THEN label[1] = "Review"
       ELSE label[1] = KeywordLabel(abstract)

\* The remote classifier answered with something that is not a label and
\* the keyword rule found a review.
C18_Witness ==
  /\ classifyPc = "done"
  /\ remote # None
  /\ remote[1].kind = "content"
  /\ Stripped(remote[1].content) \notin {PrimaryResearchText, ReviewText}
  /\ label = Some("Review")

\* The entries of the batches whose body was parsed.
ParsedEntries ==
  UNION { entriesOf(requested[j].batch) :
            j \in { i \in 1..Len(requested) : requested[i].outcome = "parsed" } }

\* C19: when the lookup has ended, the identifiers were sent in consecutive
\* batches of at most 200, every batch was requested whatever happened to
\* the batches before it (a request that threw, a non-OK status, a body that
\* could not be parsed), and the mapping was returned with exactly the
\* entries of the batches that did not fail.
C19_FailedBatchSkipped ==
  icitePc \in {"returned", "threw"} =>
    /\ \A j \in 1..Len(requested) :
         /\ Len(requested[j].batch) \in 1..200
         /\ \A k \in 1..Len(requested[j].batch) :
              requested[j].batch[k] = uniquePmids[(j - 1) * 200 + k]
         /\ j < Len(requested) => Len(requested[j].batch) = 200
    /\ Len(requested) * 200 >= Len(uniquePmids)
    /\ icitePc = "returned"
    /\ iciteResults = ParsedEntries

\* The positions, ascending, of the input records that created a canonical
\* record.
Creators == SelectSeq([i \in 1..Len(Inputs) |-> i], Creates)

\* C20: mergePublications returns the canonical records in the order in
\* which they were created over the PubMed, Scopus and Web of Science lists:
\* the k-th returned record is the one the k-th creating input created.
C20_FirstCreatedOrder ==
  Returned =>
    [k \in 1..Len(Output) |-> Output[k].id]
      = [k \in 1..Len(Creators) |-> Inputs[Creators[k]].id]

\* C21: every returned record has at least one source, and its doi, when
\* it has one, is not empty and equals its own trimmed, lower-cased value.
C21_DoiNormalized ==
  Returned =>
    \A k \in 1..Len(Output) :
      /\ Output[k].sources # None
      /\ Output[k].sources[1] # <<>>
      /\ Output[k].doi # None =>
           /\ Output[k].doi[1] # <<>>
           /\ Output[k].doi[1] = toLowerCase(trim(Output[k].doi[1]))

\* C23: a processed record with a non-empty DOI key was never merged into a
\* canonical record that has another non-empty DOI key, whatever its title.
C23_DoiFirst ==
  \A j \in 1..done :
    LET doiKey == normalizeDoi(Inputs[j].doi)
        existing == existingOf(MapsBefore(j), Inputs[j])
    IN  doiKey # <<>> /\ existing # None /\ normalizeDoi(existing[1].doi) # <<>>
          => normalizeDoi(existing[1].doi) = doiKey

\* The title lower-cased, each run of characters that are neither letters
\* nor digits replaced by one blank, and trimmed.
CollapsedTitle(title) == trim(replaceRuns(toLowerCase(title), FALSE))

\* The id of the canonical record the i-th input record went into.
CanonicalId(i) ==
  IF Creates(i) THEN Inputs[i].id ELSE existingOf(MapsBefore(i), Inputs[i])[1].id

\* C24: two processed DOI-less records with a title key went into the same
\* canonical record exactly when their collapsed titles are equal, so that
\* "a b" and "ab" are kept apart.
C24_WordBoundariesKept ==
  (\A i \in 1..Len(Inputs) : DoiLess(Inputs[i])) =>
    \A j \in 1..done : \A i \in 1..(j - 1) :
      Identifiable(Inputs[i]) /\ Identifiable(Inputs[j]) =>
        (CanonicalId(i) = CanonicalId(j)
           <=> CollapsedTitle(Inputs[i].title) = CollapsedTitle(Inputs[j].title))

\* The first provider of the order that is in the set.
FirstOf(order, set) ==
  order[CHOOSE i \in 1..Len(order) :
          order[i] \in set /\ \A j \in 1..(i - 1) : order[j] \notin set]

\* The canonical records held at the moment.
Held == Range(MapValues(maps.merged))

\* C25, as stated: the source of every canonical record is the first of
\* Web of Science, Scopus, PubMed that is among its sources.
C25_AsStated ==
  \A r \in Held :
    r.source = FirstOf(<<"Web of Science", "Scopus", "PubMed">>, Range(r.sources[1]))

\* C25: the source of every canonical record is the first of Scopus, Web of
\* Science, PubMed that is among its sources: it is one of its sources and
\* is determined by the set of its sources.
C25_SourceByPriority ==
  \A r \in Held :
    /\ r.source \in Range(r.sources[1])
    /\ r.source = FirstOf(<<"Scopus", "Web of Science", "PubMed">>, Range(r.sources[1]))

\* A record of all three providers, created by PubMed, was returned as Scopus's.
C25_Witness ==
  /\ Returned
  /\ \E k \in 1..Len(Output) :
       /\ Range(Output[k].sources[1]) = PublicationSource
       /\ Output[k].id[1] = "PubMed"
       /\ Output[k].source = "Scopus"

\* C26: in every returned record, a provider with an entry in sourceUrls is
\* one of the record's sources and the entry is that provider's own link to
\* one of its records, not the link derived from the DOI.
C26_OwnDeepLinks ==
  Returned =>
    \A k \in 1..Len(Output) : \A p \in PublicationSource :
      LET entry == SourceUrlsOf(Output[k])[p]
      IN  entry # None =>
            /\ p \in Range(SourcesOf(Output[k]))
            /\ entry[1].kind = "record"
            /\ entry[1].of[1] = p

\* The tokens of a candidate author string, and the special case of two
\* tokens of which the second is one character.
CandidateTokens(candidate) == tokens(normalizeName(trim(candidate)))

LastAndInitialForm(candidate) ==
  Len(CandidateTokens(candidate)) = 2 /\ Len(CandidateTokens(candidate)[2]) = 1

\* C27: a candidate without comma (the two-token special case aside) parses
\* to its last token as last name, and to a first name and an initial only
\* when it has at least two tokens; a single-token candidate has neither,
\* and "Lee" does not match "Larry Lee".
C27_SingleTokenHasNoInitial ==
  /\ /\ authors = << <<"L", "e", "e">> >>
     /\ authorName = <<"L", "a", "r", "r", "y", " ", "L", "e", "e">>
     /\ matched # None
     => matched = Some(FALSE)
  /\ matched # None =>
       \A k \in 1..Len(authors) :
         LET t == CandidateTokens(authors[k])
             parsed == parseAuthorForMatching(authors[k])
         IN  "," \notin Range(authors[k]) /\ t # <<>> /\ ~LastAndInitialForm(authors[k]) =>
               /\ parsed.last = Some(t[Len(t)])
               /\ IF Len(t) >= 2
                  THEN parsed.first = Some(t[1]) /\ parsed.initial = Some(<<t[1][1]>>)
                  ELSE parsed.first = None /\ parsed.initial = None

\* C28: every returned record whose sources include PubMed has the id of a
\* PubMed input record that created a canonical record, and the records the
\* enrichment step looks up are exactly those.
C28_PubMedKeepsId ==
  Returned =>
    \A k \in 1..Len(Output) :
      /\ fromPubMed(Output[k]) <=> "PubMed" \in Range(Output[k].sources[1])
      /\ "PubMed" \in Range(Output[k].sources[1]) =>
           \E i \in 1..Len(pubmedPublications) :
             /\ Creates(i)
             /\ Output[k].id = pubmedPublications[i].id

\* A record found by PubMed and by another provider was returned with
\* PubMed's id.
C28_Witness ==
  /\ Returned
  /\ \E k \in 1..Len(Output) :
       /\ {"PubMed", "Scopus"} \subseteq Range(Output[k].sources[1])
       /\ Output[k].id \in { pubmedPublications[i].id : i \in 1..Len(pubmedPublications) }

\* C29: once a search has settled after fetchPublications returned records,
\* whatever became of the enrichment request, those records are displayed
\* (the same ids in the same order), the provider errors are shown and the
\* loading flag is cleared.
C29_EnrichmentFailureKeepsRecords ==
  hsPc = "settled" /\ fetchResult # None /\ Len(fetchResult[1].publications) > 0 =>
    /\ [k \in 1..Len(results) |-> results[k].id]
         = [k \in 1..Len(fetchResult[1].publications) |-> fetchResult[1].publications[k].id]
    /\ errorMessages = fetchResult[1].errors
    /\ isLoading = FALSE

\* The calls made so far all threw.
AllThrew == \A k \in 1..Len(calls) : calls[k].threw

\* What holds of fetchWithRetry at every moment.
RetrySafe ==
  /\ Len(calls) <= attempts
  /\ \A k \in 1..(Len(calls) - 1) : calls[k].threw
  /\ retryPc = "returned" <=> ~AllThrew
  /\ retryPc = "returned" =>
       /\ retryResult = Some(calls[Len(calls)].value)
       /\ retryResult[1] \in FetchResponses
  /\ retryPc = "threw" <=> AllThrew /\ Len(calls) = attempts
  /\ retryPc = "threw" => retryResult = Some(calls[attempts].value)

\* C30: fetchWithRetry makes at most attempts calls; it returns the
\* response, OK or not, of the first call that does not throw, throws the
\* error of the last call exactly when all attempts calls threw, and
\* always ends.
C30_RetryTerminates == []RetrySafe /\ <>(retryPc \in {"returned", "threw"})

\* Two calls threw and the third returned a non-OK response, which was
\* returned without another call.
C30_Witness ==
  /\ retryPc = "returned"
  /\ Len(calls) = 3
  /\ retryResult = Some("notOk")

\* The errors the orchestrator derives from the route's answer: a message
\* for a non-OK response, nothing for an OK one.
errorsFromScopus ==
  IF routeResponse[1].ok THEN <<>> ELSE errorsAfterNotOk(<<>>, "Scopus")

\* C22: a Scopus query that met a missing API key, a non-OK upstream
\* status or an exception reaches the orchestrator as an error, never as a
\* successful empty result.
C22_FailureIsReported ==
  (scopusPc = "answered" /\ failure # None) => errorsFromScopus # <<>>

====
